---------------------------- MODULE Spec2Model ----------------------------
(***************************************************************************)
(* Model of the expense tracker: the transactions API                      *)
(* (src/app/api/transactions/route.ts), the budgets API                    *)
(* (src/app/api/budgets/route.ts) and the derived figures of the page      *)
(* (src/app/page.tsx).                                                     *)
(*                                                                         *)
(* Representation.                                                         *)
(*  - A calendar date is the integer yyyymmdd (20240131), so that integer  *)
(*    order is calendar order and d \div 100 is the "yyyy-MM" key of the   *)
(*    ISO string.                                                          *)
(*  - A JavaScript Date (an instant) is 2 * date + h, h = 0 for            *)
(*    00:00:00.000 and h = 1 for 23:59:59.999 of that day: the only two    *)
(*    times of day the code produces (parsed "yyyy-MM-dd" strings and      *)
(*    startOfMonth are midnights, endOfMonth is the last millisecond).     *)
(*    The server's time zone is taken to be UTC.                           *)
(*  - undefined, null and "" are all falsy and are never told apart by     *)
(*    the code: an absent string is "", an absent date is NoDate, an       *)
(*    absent flag is FALSE.  A request body is a record of all fields      *)
(*    together with the set has of the fields it carries.                  *)
(*  - Amounts are whole numbers and all arithmetic on them is exact; the   *)
(*    rounding of doubles on fractional amounts is not represented.        *)
(*  - A stored transaction keeps every field the handler passes to         *)
(*    Transaction.create, as the page's Transaction type reads them back.  *)
(***************************************************************************)
EXTENDS Integers, Sequences, FiniteSets, TLC

(***************************************************************************)
(* Bounds of the model.                                                    *)
(***************************************************************************)
\* days after FirstAnchor from which a template's anchor date is drawn
MaxAnchorOffset == 40
\* transaction ids ever assigned (so at most that many stored transactions)
MaxIds == 2
\* months the clock may advance past the first one
MaxTicks == 1
\* stored transactions the page's figures are computed over
MaxDocs == 5
\* budget fetches the page sends by changes of the month
MaxFetches == 3

(***************************************************************************)
(* Calendar (date-fns and the JavaScript Date, as far as the code uses     *)
(* them).                                                                  *)
(***************************************************************************)
NoDate == 0

MkDate(y, m, d) == y * 10000 + m * 100 + d
YearOf(date) == date \div 10000
MonthOf(date) == (date \div 100) % 100
DayOf(date) == date % 100

IsLeap(y) == (y % 4 = 0 /\ y % 100 # 0) \/ y % 400 = 0

DaysInMonth(y, m) ==
    IF m = 2 THEN (IF IsLeap(y) THEN 29 ELSE 28)
    ELSE IF m \in {4, 6, 9, 11} THEN 30 ELSE 31

\* Date.setDate(getDate() + n), n >= 0: the day overflows into the next months
RECURSIVE AddDays(_, _)
AddDays(date, n) ==
    LET y == YearOf(date)
        m == MonthOf(date)
        d == DayOf(date) + n
        dim == DaysInMonth(y, m)
    IN  IF d <= dim THEN MkDate(y, m, d)
        ELSE AddDays(IF m = 12 THEN MkDate(y + 1, 1, 1) ELSE MkDate(y, m + 1, 1),
                     d - dim - 1)

\* instants
AtMidnight(date) == date * 2
AtEndOfDay(date) == date * 2 + 1
DateOf(instant) == instant \div 2
TimeOf(instant) == instant % 2

isBefore(a, b) == a < b
isAfter(a, b) == a > b

startOfMonth(instant) ==
    AtMidnight(MkDate(YearOf(DateOf(instant)), MonthOf(DateOf(instant)), 1))

endOfMonth(instant) ==
    LET y == YearOf(DateOf(instant))
        m == MonthOf(DateOf(instant))
    IN  AtEndOfDay(MkDate(y, m, DaysInMonth(y, m)))

\* date-fns addDays / addWeeks: the time of day is kept
addWeeks(instant, n) == AtMidnight(AddDays(DateOf(instant), 7 * n)) + TimeOf(instant)

\* date-fns addMonths: the same day of the month amount months later, or the
\* last day of that month when it has fewer days
addMonths(instant, amount) ==
    LET date == DateOf(instant)
        months == YearOf(date) * 12 + (MonthOf(date) - 1) + amount
        y == months \div 12
        m == (months % 12) + 1
        dim == DaysInMonth(y, m)
        d == IF DayOf(date) >= dim THEN dim ELSE DayOf(date)
    IN  AtMidnight(MkDate(y, m, d)) + TimeOf(instant)

\* date-fns addYears(date, n) is addMonths(date, 12 n)
addYears(instant, n) == addMonths(instant, 12 * n)

\* the "yyyy-MM" key of a date: format(date, "yyyy-MM"), date.startsWith(month)
MonthKey(date) == date \div 100


(***************************************************************************)
(* Registry and records.                                                   *)
(***************************************************************************)
CATEGORIES ==
    << "Food", "Transport", "Bills", "Shopping", "Entertainment", "Health",
       "Travel", "Education", "Other" >>

Registry == { CATEGORIES[i] : i \in 1..Len(CATEGORIES) }

\* the three periods the expander steps by
Periods == { "weekly", "monthly", "yearly" }

(***************************************************************************)
(* State.                                                                  *)
(***************************************************************************)
VARIABLES
    \* one call of generateRecurringInstances(tx, monthStart, monthEnd)
    tx,             \* the template
    monthStart,     \* the window's start (an instant)
    monthEnd,       \* the window's end (an instant)
    nextDate,       \* the loop's stepped date (an instant)
    instances,      \* the occurrences pushed so far
    pc,             \* "call", "loop" or "done"
    \* the transactions API
    store,          \* the stored transaction documents, in insertion order
    nextId,         \* the next fresh document id
    now,            \* the clock: new Date()
    response,       \* the last request handled and the answer to it
    justPosted,     \* the body and id of the POST accepted right before
    \* the budgets API
    budgetStore,    \* the stored budget documents, in insertion order
    budgetResponse, \* the last budget request handled and the answer to it
    \* the page (Home)
    transactions,   \* useState: the list fetched from GET /api/transactions
    budgets,        \* useState: the budgets fetched for a month
    selectedMonth,  \* useState: the month of the budget table (yyyymm)
    editId,         \* useState: the id of the transaction being edited, 0 for null
    form,           \* useForm: the values the form holds
    inflight,       \* the budget fetches sent and not yet received by the page
    fetches         \* the number of budget fetches sent so far

expanderVars == << tx, monthStart, monthEnd, nextDate, instances, pc >>

apiVars == << store, nextId, now, response, justPosted >>

budgetVars == << budgetStore, budgetResponse >>

editVars == << editId, form >>

fetchVars == << inflight, fetches >>

pageVars == << transactions, budgets, selectedMonth, editVars, fetchVars >>

vars == << expanderVars, apiVars, budgetVars, pageVars >>

(***************************************************************************)
(* generateRecurringInstances.                                             *)
(***************************************************************************)
\* tx.recurring && tx.recurringType
IsTemplate(t) == t.recurring /\ t.recurringType # ""

\* const endDate = tx.recurringEndDate ? new Date(tx.recurringEndDate) : monthEnd
EndBound(t, mEnd) ==
    IF t.recurringEndDate # NoDate THEN AtMidnight(t.recurringEndDate) ELSE mEnd

\* (mutant) the end bound is not consulted
LoopCondNoEnd(next, mEnd, endDate) == isBefore(next, mEnd)

\* the while condition
LoopCond(next, mEnd, endDate) == isBefore(next, mEnd) /\ isBefore(next, endDate)

\* (mutant) the window start taken as exclusive
InWindowStrict(next, mStart) == isAfter(next, mStart)

\* the condition under which the occurrence is pushed
InWindow(next, mStart) == isAfter(next, mStart) \/ next = mStart

\* { ...tx._doc, date: new Date(nextDate) }
Instance(t, next) == [t EXCEPT !.date = DateOf(next)]

\* the if / else if chain: a type that is none of the three leaves the loop
CanStep(type) == type \in Periods

\* (mutant) the stepped date is left where it is
AdvanceStuck(type, next) == next

Advance(type, next) ==
    IF type = "weekly" THEN addWeeks(next, 1)
    ELSE IF type = "monthly" THEN addMonths(next, 1)
    ELSE addYears(next, 1)

\* the loop, from the stepped date next with the occurrences acc pushed so far
RECURSIVE ExpandLoop(_, _, _, _, _)
ExpandLoop(t, mStart, mEnd, next, acc) ==
    IF ~LoopCond(next, mEnd, EndBound(t, mEnd)) THEN acc
    ELSE LET pushed == IF InWindow(next, mStart)
                       THEN Append(acc, Instance(t, next)) ELSE acc
         IN  IF CanStep(t.recurringType)
             THEN ExpandLoop(t, mStart, mEnd, Advance(t.recurringType, next), pushed)
             ELSE pushed

generateRecurringInstances(t, mStart, mEnd) ==
    IF ~IsTemplate(t) THEN << >>
    ELSE ExpandLoop(t, mStart, mEnd, AtMidnight(t.date), << >>)

(***************************************************************************)
(* Requests.  A body is a record of the fields a request may carry and     *)
(* the set has of those it does carry; a field outside has holds its       *)
(* falsy value.                                                            *)
(***************************************************************************)
TxFields ==
    { "id", "amount", "date", "description", "category", "recurring",
      "recurringType", "recurringEndDate", "type" }

\* !field: the field is undefined, null, 0 or ""
Falsy(body, f) ==
    \/ f \notin body.has
    \/ (f \in {"id", "amount", "date", "recurringEndDate", "month"} /\ body[f] = 0)
    \/ (f \in {"description", "category", "recurringType", "type"} /\ body[f] = "")
    \/ (f = "recurring" /\ body[f] = FALSE)

NoBody ==
    [ has |-> {}, id |-> 0, amount |-> 0, date |-> NoDate, description |-> "",
      category |-> "", recurring |-> FALSE, recurringType |-> "",
      recurringEndDate |-> NoDate, type |-> "" ]

\* the answer to a request: the request (op, body), the status, the id of
\* the document created, updated or deleted, and the list GET returns
Answer(op, body, status, id, list) ==
    [ op |-> op, body |-> body, status |-> status, id |-> id, list |-> list ]

NoResponse == Answer("", NoBody, 0, 0, << >>)

NoPost == [ id |-> 0, body |-> NoBody ]

(***************************************************************************)
(* The transactions API.                                                   *)
(***************************************************************************)
StoredIds == { store[i].id : i \in 1..Len(store) }

IndexOf(id) == CHOOSE i \in 1..Len(store) : store[i].id = id

\* { amount, date, description, category, recurring, recurringType,
\*   recurringEndDate, type: type || "expense" }
DocFields(id, body) ==
    [ id |-> id, amount |-> body.amount, date |-> body.date,
      description |-> body.description, category |-> body.category,
      recurring |-> body.recurring, recurringType |-> body.recurringType,
      recurringEndDate |-> body.recurringEndDate,
      type |-> IF Falsy(body, "type") THEN "expense" ELSE body.type ]

\* if (!amount || !date || !description || !category)
MissingRequired(body) ==
    \/ Falsy(body, "amount") \/ Falsy(body, "date")
    \/ Falsy(body, "description") \/ Falsy(body, "category")

\* if (!CATEGORIES.includes(category))
InvalidCategory(body) == body.category \notin Registry

\* Transaction.find().sort({ date: -1 }): the documents by date, latest
\* first; the store fixes no order among documents of one date
SortedFindsOf(docs) ==
    { found \in { [ i \in 1..Len(docs) |-> docs[p[i]] ] :
                    p \in Permutations(1..Len(docs)) } :
        \A i \in 1..(Len(found) - 1) : found[i].date >= found[i + 1].date }

SortedFinds == SortedFindsOf(store)

\* the for loop of GET: a template is replaced by its occurrences in the
\* window, any other document is listed as it is
RECURSIVE ExpandAll(_, _, _)
ExpandAll(found, mStart, mEnd) ==
    IF found = << >> THEN << >>
    ELSE LET t == Head(found)
         IN  (IF IsTemplate(t) THEN generateRecurringInstances(t, mStart, mEnd)
              ELSE << t >>) \o ExpandAll(Tail(found), mStart, mEnd)

\* (mutant) an entry is placed before the entries of its date
RECURSIVE InsertBeforeTies(_, _)
InsertBeforeTies(sorted, e) ==
    IF sorted = << >> THEN << e >>
    ELSE IF Head(sorted).date > e.date
         THEN << Head(sorted) >> \o InsertBeforeTies(Tail(sorted), e)
         ELSE << e >> \o sorted

\* Array.prototype.sort with (a, b) => b.date - a.date: stable, latest first
RECURSIVE InsertByDateDesc(_, _)
InsertByDateDesc(sorted, e) ==
    IF sorted = << >> THEN << e >>
    ELSE IF Head(sorted).date >= e.date
         THEN << Head(sorted) >> \o InsertByDateDesc(Tail(sorted), e)
         ELSE << e >> \o sorted

RECURSIVE SortByDateDesc(_)
SortByDateDesc(list) ==
    IF list = << >> THEN << >>
    ELSE InsertByDateDesc(SortByDateDesc(SubSeq(list, 1, Len(list) - 1)),
                          list[Len(list)])

\* what GET returns for the documents found
Listed(found) ==
    SortByDateDesc(ExpandAll(found, startOfMonth(now), endOfMonth(now)))

\* (mutant) the occurrences listed are written back as documents
GETPersisting ==
    /\ \E found \in SortedFinds :
         /\ response' = Answer("GET", NoBody, 200, 0, Listed(found))
         /\ store' = IF Len(Listed(found)) > Len(store) THEN Listed(found) ELSE store
    /\ UNCHANGED << nextId, now, justPosted >>

GET ==
    /\ \E found \in SortedFinds :
         response' = Answer("GET", NoBody, 200, 0, Listed(found))
    /\ UNCHANGED << store, nextId, now, justPosted >>

POST(body) ==
    /\ IF MissingRequired(body) \/ InvalidCategory(body)
       THEN /\ response' = Answer("POST", body, 400, 0, << >>)
            /\ justPosted' = NoPost
            /\ UNCHANGED << store, nextId >>
       ELSE /\ nextId <= MaxIds
            /\ store' = Append(store, DocFields(nextId, body))
            /\ nextId' = nextId + 1
            /\ response' = Answer("POST", body, 201, nextId, << >>)
            /\ justPosted' = [ id |-> nextId, body |-> body ]
    /\ UNCHANGED now

\* (mutant) the update is written to every document
UpdatedAll(id, body) ==
    [ i \in 1..Len(store) |-> DocFields(store[i].id, body) ]

\* findByIdAndUpdate(id, { ... })
Updated(id, body) ==
    [ store EXCEPT ![IndexOf(id)] = DocFields(id, body) ]

PUT(body) ==
    /\ IF Falsy(body, "id") \/ MissingRequired(body) \/ InvalidCategory(body)
       THEN /\ response' = Answer("PUT", body, 400, 0, << >>)
            /\ UNCHANGED store
       ELSE IF body.id \notin StoredIds
       THEN /\ response' = Answer("PUT", body, 404, 0, << >>)
            /\ UNCHANGED store
       ELSE /\ store' = Updated(body.id, body)
            /\ response' = Answer("PUT", body, 200, body.id, << >>)
    /\ justPosted' = NoPost
    /\ UNCHANGED << nextId, now >>

\* findByIdAndDelete(id)
Removed(id) == SelectSeq(store, LAMBDA d : d.id # id)

DELETE(body) ==
    /\ IF Falsy(body, "id")
       THEN /\ response' = Answer("DELETE", body, 400, 0, << >>)
            /\ UNCHANGED store
       ELSE IF body.id \notin StoredIds
       THEN /\ response' = Answer("DELETE", body, 404, 0, << >>)
            /\ UNCHANGED store
       ELSE /\ store' = Removed(body.id)
            /\ response' = Answer("DELETE", body, 200, body.id, << >>)
    /\ justPosted' = NoPost
    /\ UNCHANGED << nextId, now >>

\* the clock passes into the next month
FirstNow == AtMidnight(MkDate(2024, 1, 10))

Tick ==
    /\ now < addMonths(FirstNow, MaxTicks)
    /\ now' = addMonths(now, 1)
    /\ justPosted' = NoPost
    /\ UNCHANGED << store, nextId, response >>

(***************************************************************************)
(* The requests drawn.                                                     *)
(***************************************************************************)
Body(id, amount, date, description, category, rec, type) ==
    [ has |-> TxFields, id |-> id, amount |-> amount, date |-> date,
      description |-> description, category |-> category,
      recurring |-> rec.recurring, recurringType |-> rec.recurringType,
      recurringEndDate |-> rec.recurringEndDate, type |-> type ]

\* the body without field f
Without(body, f) == [ body EXCEPT !.has = @ \ {f}, ![f] = NoBody[f] ]

\* one-off, weekly (open and ended), and recurring with no type
Recurrences ==
    { [ recurring |-> FALSE, recurringType |-> "", recurringEndDate |-> NoDate ],
      [ recurring |-> TRUE, recurringType |-> "weekly", recurringEndDate |-> NoDate ],
      [ recurring |-> TRUE, recurringType |-> "weekly",
        recurringEndDate |-> MkDate(2024, 1, 22) ],
      [ recurring |-> TRUE, recurringType |-> "", recurringEndDate |-> NoDate ] }

TxDates == { MkDate(2024, 1, 8), MkDate(2024, 2, 5) }

NoRecurrence ==
    [ recurring |-> FALSE, recurringType |-> "", recurringEndDate |-> NoDate ]

\* what the form holds when nothing is being entered: { amount: 0, date: "",
\* description: "", category: CATEGORIES[0], recurring: false, ... }
defaultFormValues ==
    Without(Body(0, 0, NoDate, "", CATEGORIES[1], NoRecurrence, "expense"), "id")

\* every recurrence on every date, one body of another amount and type, and
\* one of a negative amount
ValidBodies ==
    { Body(0, 1, d, "rent", "Food", r, "") : d \in TxDates, r \in Recurrences }
        \cup { Body(0, 2, MkDate(2024, 1, 8), "salary", "Other", NoRecurrence, "income"),
               Body(0, 0 - 1, MkDate(2024, 1, 8), "refund", "Food", NoRecurrence, "expense") }

BaseBody == Body(0, 1, MkDate(2024, 1, 8), "rent", "Food", NoRecurrence, "expense")

\* a required field missing, a zero amount, a category outside the registry
InvalidBodies ==
    { Without(BaseBody, f) : f \in {"amount", "date", "description", "category"} }
        \cup { [ BaseBody EXCEPT !.amount = 0 ], [ BaseBody EXCEPT !.category = "Pets" ] }

PostBodies ==
    { Without(Without(b, "id"), "type") : b \in ValidBodies }
        \cup { Without(b, "id") : b \in InvalidBodies }

\* ids a PUT or DELETE names: stored or deleted ones and one never assigned
RequestIds == 1..(MaxIds + 1)

PutBodies ==
    { [ b EXCEPT !.id = i ] :
        b \in { BaseBody,
                Body(0, 2, MkDate(2024, 2, 5), "salary", "Other", NoRecurrence, "income"),
                Body(0, 1, MkDate(2024, 1, 8), "rent", "Food",
                     [ recurring |-> TRUE, recurringType |-> "weekly",
                       recurringEndDate |-> NoDate ], "expense") },
        i \in RequestIds }
        \cup { [ b EXCEPT !.id = 1 ] : b \in InvalidBodies }
        \cup { Without(BaseBody, "id") }

DeleteBodies ==
    { [ NoBody EXCEPT !.has = {"id"}, !.id = i ] : i \in RequestIds } \cup { NoBody }


(***************************************************************************)
(* The budgets API.  A month is the integer yyyymm of its "yyyy-MM" string *)
(* (0 for the empty string).                                               *)
(***************************************************************************)
NoBudgetBody == [ has |-> {}, category |-> "", month |-> 0, amount |-> 0 ]

BudgetAnswer(op, body, status, list) ==
    [ op |-> op, body |-> body, status |-> status, list |-> list ]

NoBudgetResponse == BudgetAnswer("", NoBudgetBody, 0, << >>)

\* the documents that match { category, month }
Matching(category, month) ==
    { i \in 1..Len(budgetStore) :
        budgetStore[i].category = category /\ budgetStore[i].month = month }

\* (mutant) the upsert inserts without looking for the key
UpsertedAlwaysInsert(body) ==
    Append(budgetStore, [ category |-> body.category, month |-> body.month,
                          amount |-> body.amount ])

\* findOneAndUpdate({ category, month }, { amount }, { upsert: true }): the
\* first matching document takes the amount; with none, one is inserted
Upserted(body) ==
    LET hits == Matching(body.category, body.month)
    IN  IF hits # {}
        THEN [ budgetStore EXCEPT
                 ![CHOOSE i \in hits : \A j \in hits : i <= j].amount = body.amount ]
        ELSE Append(budgetStore, [ category |-> body.category,
                                   month |-> body.month, amount |-> body.amount ])

\* if (!category || !month || !amount)
BudgetMissingRequired(body) ==
    Falsy(body, "category") \/ Falsy(body, "month") \/ Falsy(body, "amount")

BudgetPOST(body) ==
    IF BudgetMissingRequired(body)
    THEN /\ budgetResponse' = BudgetAnswer("POST", body, 400, << >>)
         /\ UNCHANGED budgetStore
    ELSE /\ budgetStore' = Upserted(body)
         /\ budgetResponse' = BudgetAnswer("POST", body, 200, << >>)

\* Budget.find({ month })
FoundBudgetsIn(docs, month) == SelectSeq(docs, LAMBDA b : b.month = month)

FoundBudgets(month) == FoundBudgetsIn(budgetStore, month)

BudgetGET(body) ==
    /\ budgetResponse' =
         IF Falsy(body, "month") THEN BudgetAnswer("GET", body, 400, << >>)
         ELSE BudgetAnswer("GET", body, 200, FoundBudgets(body.month))
    /\ UNCHANGED budgetStore

\* the budget requests drawn
BudgetMonths == { 202401, 202402 }

FullBudgetBodies ==
    [ has : { {"category", "month", "amount"} }, category : { "Food", "Pets" },
      month : BudgetMonths, amount : { 0, 1, 2 } ]

BudgetBodies ==
    FullBudgetBodies
        \cup { [ b EXCEPT !.has = @ \ {f}, ![f] = NoBudgetBody[f] ] :
                 b \in { [ has |-> {"category", "month", "amount"},
                           category |-> "Food", month |-> 202401, amount |-> 1 ] },
                 f \in {"category", "month", "amount"} }

BudgetQueries ==
    { [ NoBudgetBody EXCEPT !.has = {"month"}, !.month = m ] : m \in BudgetMonths }
        \cup { NoBudgetBody }

NextBudget ==
    \/ (\E body \in BudgetBodies : BudgetPOST(body))
         /\ UNCHANGED << expanderVars, apiVars, pageVars >>
    \/ (\E body \in BudgetQueries : BudgetGET(body))
         /\ UNCHANGED << expanderVars, apiVars, pageVars >>

(***************************************************************************)
(* The APIs from empty stores.                                             *)
(***************************************************************************)
Init ==
    /\ store = << >>
    /\ nextId = 1
    /\ now = FirstNow
    /\ response = NoResponse
    /\ justPosted = NoPost
    /\ budgetStore = << >>
    /\ budgetResponse = NoBudgetResponse
    /\ transactions = << >>
    /\ budgets = << >>
    /\ selectedMonth = MonthKey(DateOf(FirstNow))
    /\ editId = 0
    /\ form = defaultFormValues
    /\ inflight = {}
    /\ fetches = 0
    /\ tx = NoBody
    /\ monthStart = 0
    /\ monthEnd = 0
    /\ nextDate = 0
    /\ instances = << >>
    /\ pc = "idle"

Next ==
    \/ GET /\ UNCHANGED << expanderVars, budgetVars, pageVars >>
    \/ (\E body \in PostBodies : POST(body)) /\ UNCHANGED << expanderVars, budgetVars, pageVars >>
    \/ (\E body \in PutBodies : PUT(body)) /\ UNCHANGED << expanderVars, budgetVars, pageVars >>
    \/ (\E body \in DeleteBodies : DELETE(body)) /\ UNCHANGED << expanderVars, budgetVars, pageVars >>
    \/ Tick /\ UNCHANGED << expanderVars, budgetVars, pageVars >>

Spec == Init /\ [][Next]_vars

SpecBudget == Init /\ [][NextBudget]_vars

(***************************************************************************)
(* The page.  No filter is set: the filter inputs keep their initial,      *)
(* empty values, under which filteredTransactions is transactions.  A      *)
(* handler is one step with the refetch it ends in.                        *)
(***************************************************************************)
filteredTransactions == transactions

\* list.reduce((sum, tx) => sum + tx.amount, 0)
RECURSIVE SumAmounts(_)
SumAmounts(list) ==
    IF list = << >> THEN 0 ELSE Head(list).amount + SumAmounts(Tail(list))

\* Object.fromEntries(budgets.map((b) => [b.category, b.amount]))[cat] || 0:
\* the last entry of a category wins, a category without entry gives 0
BudgetOf(cat) ==
    LET hits == { i \in 1..Len(budgets) : budgets[i].category = cat }
    IN  IF hits = {} THEN 0
        ELSE budgets[CHOOSE i \in hits : \A j \in hits : j <= i].amount

\* actualMap[cat] || 0
ActualOf(cat) ==
    LET keep(t) == /\ t.category = cat
                   /\ MonthKey(t.date) = selectedMonth
                   /\ t.type = "expense"
    IN  SumAmounts(SelectSeq(filteredTransactions, keep))

\* budget > 0 && actual > budget
OverBudget(cat) == BudgetOf(cat) > 0 /\ ActualOf(cat) > BudgetOf(cat)

\* budget ? Math.min((actual / budget) * 100, 100) : 0, as the fraction
\* num / den with den > 0
ProgressValue(cat) ==
    LET budget == BudgetOf(cat)
        actual == ActualOf(cat)
    IN  IF budget = 0 THEN [ num |-> 0, den |-> 1 ]
        ELSE IF budget > 0
             THEN (IF actual * 100 < 100 * budget
                   THEN [ num |-> actual * 100, den |-> budget ]
                   ELSE [ num |-> 100, den |-> 1 ])
             ELSE (IF actual * 100 > 100 * budget
                   THEN [ num |-> (0 - actual) * 100, den |-> 0 - budget ]
                   ELSE [ num |-> 100, den |-> 1 ])

\* the mount effects: fetchTransactions() and fetchBudgets(selectedMonth)
Load ==
    /\ \E found \in SortedFinds : transactions' = Listed(found)
    /\ budgets' = FoundBudgets(selectedMonth)
    /\ UNCHANGED << selectedMonth, editVars, fetchVars, apiVars, budgetVars >>

\* handleEdit(tx): the form takes the values of the listed entry tx
HandleEdit(entry) ==
    /\ editId' = entry.id
    /\ form' = [ has |-> TxFields \ {"id"}, id |-> 0,
                 amount |-> entry.amount, date |-> entry.date,
                 description |-> entry.description, category |-> entry.category,
                 recurring |-> entry.recurring, recurringType |-> entry.recurringType,
                 recurringEndDate |-> entry.recurringEndDate,
                 type |-> IF entry.type = "" THEN "expense" ELSE entry.type ]
    /\ UNCHANGED << transactions, budgets, selectedMonth, fetchVars, apiVars, budgetVars >>

\* onSubmit(data): PUT { ...data, id: editId } when editId is set, POST data
\* otherwise; on success reset(defaultFormValues), setEditId(null) and
\* fetchTransactions()
Submit(data) ==
    /\ IF editId # 0
       THEN PUT([ data EXCEPT !.has = @ \cup {"id"}, !.id = editId ])
       ELSE POST(data)
    /\ IF response'.status \in {200, 201}
       THEN /\ \E found \in SortedFindsOf(store') : transactions' = Listed(found)
            /\ editId' = 0
            /\ form' = defaultFormValues
       ELSE UNCHANGED << transactions, editVars >>
    /\ UNCHANGED << budgets, selectedMonth, fetchVars, budgetVars >>

\* handleDelete(id): DELETE, then on success fetchTransactions()
HandleDelete(id) ==
    /\ DELETE([ NoBody EXCEPT !.has = {"id"}, !.id = id ])
    /\ IF response'.status = 200
       THEN \E found \in SortedFindsOf(store') : transactions' = Listed(found)
       ELSE UNCHANGED transactions
    /\ UNCHANGED << budgets, selectedMonth, editVars, fetchVars, budgetVars >>

\* the month input: setSelectedMonth, whose effect is fetchBudgets(month)
SelectMonth(month) ==
    /\ selectedMonth' = month
    /\ budgets' = FoundBudgets(month)
    /\ UNCHANGED << transactions, editVars, fetchVars, apiVars, budgetVars >>

\* the budget input's onBlur: setBudget(cat, val) when val >= 0 and
\* val !== budget; POST, then on success fetchBudgets(selectedMonth)
SetBudget(cat, val) ==
    /\ val >= 0 /\ val # BudgetOf(cat)
    /\ BudgetPOST([ has |-> {"category", "month", "amount"}, category |-> cat,
                    month |-> selectedMonth, amount |-> val ])
    /\ budgets' = IF budgetResponse'.status = 200
                  THEN FoundBudgetsIn(budgetStore', selectedMonth)
                  ELSE budgets
    /\ UNCHANGED << transactions, selectedMonth, editVars, fetchVars, apiVars >>

\* the inputs drawn for the page
FormData ==
    { Without(Without(b, "id"), "recurringEndDate") :
        b \in { Body(0, 1, MkDate(2024, 1, 8), "lunch", "Food", NoRecurrence, "expense"),
                Body(0, 2, MkDate(2024, 2, 5), "bus", "Transport", NoRecurrence, "expense"),
                Body(0, 1, MkDate(2024, 1, 8), "canteen", "Food",
                     [ recurring |-> TRUE, recurringType |-> "weekly",
                       recurringEndDate |-> NoDate ], "expense"),
                Body(0, 2, MkDate(2024, 1, 8), "salary", "Other", NoRecurrence, "income") } }

PageMonths == { 202401, 202402 }

\* budget requests sent to the API by another client
DirectBudgetBodies ==
    [ has : { {"category", "month", "amount"} }, category : { "Food" },
      month : PageMonths, amount : { 0 - 1, 1 } ]

NextPage ==
    \/ Load /\ UNCHANGED expanderVars
    \/ (\E data \in FormData : Submit(data)) /\ UNCHANGED expanderVars
    \/ (\E id \in { transactions[i].id : i \in 1..Len(transactions) } : HandleDelete(id))
         /\ UNCHANGED expanderVars
    \/ (\E month \in PageMonths : SelectMonth(month)) /\ UNCHANGED expanderVars
    \/ (\E cat \in { "Food" }, val \in { 0, 2 } : SetBudget(cat, val))
         /\ UNCHANGED expanderVars
    \/ (\E body \in DirectBudgetBodies : BudgetPOST(body))
         /\ UNCHANGED << expanderVars, apiVars, pageVars >>
    \/ Tick /\ UNCHANGED << expanderVars, budgetVars, pageVars >>

SpecPage == Init /\ [][NextPage]_vars

(***************************************************************************)
(* The page with its edit form: entries are added, opened for edit from    *)
(* the list, and saved as the form holds them.                             *)
(***************************************************************************)
\* the Cancel Edit button: reset(defaultFormValues); setEditId(null)
CancelEdit ==
    /\ editId # 0
    /\ editId' = 0
    /\ form' = defaultFormValues
    /\ UNCHANGED << transactions, budgets, selectedMonth, fetchVars, apiVars, budgetVars >>

NextEdit ==
    \/ (\E data \in FormData : editId = 0 /\ Submit(data)) /\ UNCHANGED expanderVars
    \/ (\E i \in 1..Len(filteredTransactions) : HandleEdit(filteredTransactions[i]))
         /\ UNCHANGED expanderVars
    \/ (editId # 0 /\ Submit(form)) /\ UNCHANGED expanderVars
    \/ CancelEdit /\ UNCHANGED expanderVars

SpecEdit == Init /\ [][NextEdit]_vars

(***************************************************************************)
(* The page with its budget fetches in flight.  fetchBudgets(month) sends  *)
(* GET /api/budgets?month=..., the server answers it at some later time,   *)
(* and the page calls setBudgets(data) when the answer arrives; nothing    *)
(* orders the arrivals of two fetches.                                     *)
(***************************************************************************)
\* the n-th fetch, sent for month and not yet answered
Fetch(n, month) == [ n |-> n, month |-> month, answered |-> FALSE, list |-> << >> ]

\* the month input's onChange: setSelectedMonth(month); the effect on
\* [selectedMonth] then calls fetchBudgets(month), which sends its request
ChangeMonth(month) ==
    /\ month # selectedMonth
    /\ fetches < MaxFetches
    /\ selectedMonth' = month
    /\ fetches' = fetches + 1
    /\ inflight' = inflight \cup { Fetch(fetches + 1, month) }
    /\ UNCHANGED << transactions, budgets, editVars, apiVars, budgetVars >>

\* the server handles the request of a fetch
AnswerFetch(f) ==
    /\ ~f.answered
    /\ BudgetGET([ NoBudgetBody EXCEPT !.has = {"month"}, !.month = f.month ])
    /\ inflight' = (inflight \ {f})
                      \cup { [ f EXCEPT !.answered = TRUE, !.list = budgetResponse'.list ] }
    /\ UNCHANGED << transactions, budgets, selectedMonth, fetches, editVars, apiVars >>

\* the answer of a fetch arrives: const data = await res.json(); setBudgets(data)
ReceiveBudgets(f) ==
    /\ f.answered
    /\ budgets' = f.list
    /\ inflight' = inflight \ {f}
    /\ UNCHANGED << transactions, selectedMonth, fetches, editVars, apiVars, budgetVars >>

\* the budget input is disabled while budgetLoading, taken here as: while a
\* fetch is in flight
NextFetch ==
    \/ (\E month \in PageMonths : ChangeMonth(month)) /\ UNCHANGED expanderVars
    \/ (\E f \in inflight : AnswerFetch(f)) /\ UNCHANGED expanderVars
    \/ (\E f \in inflight : ReceiveBudgets(f)) /\ UNCHANGED expanderVars
    \/ (\E val \in { 1, 2 } : inflight = {} /\ SetBudget("Food", val))
         /\ UNCHANGED expanderVars

SpecFetch == Init /\ [][NextFetch]_vars

(***************************************************************************)
(* The figures the page derives from its state on every render: the        *)
(* summary totals, the chart series and the insights.  An insight is the   *)
(* record of its kind, its category and the percentage it prints.          *)
(***************************************************************************)
\* filteredTransactions.filter(tx => tx.type === "income").reduce(...)
totalIncome ==
    SumAmounts(SelectSeq(filteredTransactions, LAMBDA t : t.type = "income"))

totalExpenses ==
    SumAmounts(SelectSeq(filteredTransactions, LAMBDA t : t.type = "expense"))

netSavings == totalIncome - totalExpenses

\* the total of one entry of categoryTotals, before .filter((c) => c.total > 0)
CategoryTotal(cat) ==
    SumAmounts(SelectSeq(filteredTransactions,
                         LAMBDA t : t.category = cat /\ t.type = "expense"))

categoryTotals ==
    SelectSeq([ i \in 1..Len(CATEGORIES) |->
                  [ category |-> CATEGORIES[i], total |-> CategoryTotal(CATEGORIES[i]) ] ],
              LAMBDA c : c.total > 0)

\* the months of the listed entries: the keys of monthlyData and savingsByMonth
ListedMonths ==
    { MonthKey(filteredTransactions[i].date) : i \in 1..Len(filteredTransactions) }

\* acc[month] = (acc[month] || 0) + tx.amount, for every entry
monthlyData ==
    [ m \in ListedMonths |->
        SumAmounts(SelectSeq(filteredTransactions, LAMBDA t : MonthKey(t.date) = m)) ]

\* income += amount for an income entry, expense += amount for any other
savingsByMonth ==
    [ m \in ListedMonths |->
        [ income  |-> SumAmounts(SelectSeq(filteredTransactions,
                         LAMBDA t : MonthKey(t.date) = m /\ t.type = "income")),
          expense |-> SumAmounts(SelectSeq(filteredTransactions,
                         LAMBDA t : MonthKey(t.date) = m /\ t.type # "income")) ] ]

savingsChartData ==
    [ m \in ListedMonths |->
        [ income |-> savingsByMonth[m].income, expense |-> savingsByMonth[m].expense,
          savings |-> savingsByMonth[m].income - savingsByMonth[m].expense ] ]

\* date-fns subMonths(date, n) is addMonths(date, -n)
subMonths(instant, n) == addMonths(instant, 0 - n)

thisMonth == MonthKey(DateOf(startOfMonth(now)))

lastMonth == MonthKey(DateOf(startOfMonth(subMonths(now, 1))))

\* categoryTotals.reduce((a, b) => (a.total > b.total ? a : b))
RECURSIVE ReduceBigger(_, _)
ReduceBigger(a, rest) ==
    IF rest = << >> THEN a
    ELSE ReduceBigger(IF a.total > Head(rest).total THEN a ELSE Head(rest), Tail(rest))

\* null is ""
biggestCategory ==
    IF Len(categoryTotals) > 0
    THEN ReduceBigger(Head(categoryTotals), Tail(categoryTotals)).category
    ELSE ""

\* the total of one entry of lastMonthTotals
LastMonthTotal(cat) ==
    SumAmounts(SelectSeq(filteredTransactions,
                         LAMBDA t : /\ t.category = cat
                                    /\ MonthKey(t.date) = lastMonth
                                    /\ t.type = "expense"))

lastMonthSavings ==
    SumAmounts(SelectSeq(filteredTransactions,
                   LAMBDA t : MonthKey(t.date) = lastMonth /\ t.type = "income"))
    - SumAmounts(SelectSeq(filteredTransactions,
                   LAMBDA t : MonthKey(t.date) = lastMonth /\ t.type = "expense"))

Message(kind, cat, percent) == [ kind |-> kind, category |-> cat, percent |-> percent ]

\* (mutant) the threshold is met at 20 already
Over20Inclusive(diff, base) == diff * 100 >= 20 * base

\* (diff / base) * 100 > 20, for base > 0; change < -20 is this of -diff
Over20(diff, base) == diff * 100 > 20 * base

\* ((diff / base) * 100).toFixed(0) for diff >= 0 and base > 0: the nearest
\* integer, the larger one of two
ToFixed0(diff, base) == (200 * diff + base) \div (2 * base)

\* the messages of one figure against last month's: more, less or none
ChangeInsight(more, less, cat, current, last) ==
    IF current > 0 /\ last > 0
    THEN IF Over20(current - last, last)
         THEN << Message(more, cat, ToFixed0(current - last, last)) >>
         ELSE IF Over20(last - current, last)
              THEN << Message(less, cat, ToFixed0(last - current, last)) >>
              ELSE << >>
    ELSE << >>

\* thisTotal: categoryTotals.find((c) => c.category === cat)?.total || 0
ThisTotal(cat) == IF CategoryTotal(cat) > 0 THEN CategoryTotal(cat) ELSE 0

\* for (const cat of CATEGORIES): the spending messages from category i on
RECURSIVE SpendingInsights(_)
SpendingInsights(i) ==
    IF i > Len(CATEGORIES) THEN << >>
    ELSE ChangeInsight("spentMore", "spentLess", CATEGORIES[i],
                       ThisTotal(CATEGORIES[i]), LastMonthTotal(CATEGORIES[i]))
             \o SpendingInsights(i + 1)

SavingsInsight == ChangeInsight("savedMore", "savedLess", "", netSavings, lastMonthSavings)

\* for (const cat of CATEGORIES): if (budget > 0 && actual > budget) push
RECURSIVE BudgetInsights(_)
BudgetInsights(i) ==
    IF i > Len(CATEGORIES) THEN << >>
    ELSE (IF OverBudget(CATEGORIES[i])
          THEN << Message("raiseBudget", CATEGORIES[i], 0) >> ELSE << >>)
             \o BudgetInsights(i + 1)

\* (mutant) the biggest category is pushed where it is computed
insightsPushed ==
    SpendingInsights(1) \o SavingsInsight
        \o (IF biggestCategory # "" THEN << Message("biggest", biggestCategory, 0) >>
            ELSE << >>)
        \o BudgetInsights(1)

\* the pushes of the two rules, the unshift of the biggest category, the
\* pushes of the budget rule
insights ==
    (IF biggestCategory # "" THEN << Message("biggest", biggestCategory, 0) >>
     ELSE << >>)
        \o SpendingInsights(1) \o SavingsInsight \o BudgetInsights(1)

(***************************************************************************)
(* The page loaded over a store of transactions accepted before, with the  *)
(* month input set, and the budgets set from there.                        *)
(***************************************************************************)
\* request bodies of the transactions kept in the store, each of a date of
\* its own
InsightBodies ==
    << Body(0, 100, MkDate(2023, 12, 5), "market", "Food", NoRecurrence, "expense"),
       Body(0, 20, MkDate(2024, 1, 8), "lunch", "Food", NoRecurrence, "expense"),
       Body(0, 25, MkDate(2024, 1, 9), "dinner", "Food", NoRecurrence, "expense"),
       Body(0, 100, MkDate(2023, 12, 6), "pass", "Transport", NoRecurrence, "expense"),
       Body(0, 25, MkDate(2024, 1, 7), "bus", "Transport", NoRecurrence, "expense"),
       Body(0, 400, MkDate(2023, 12, 20), "salary", "Other", NoRecurrence, "income"),
       Body(0, 400, MkDate(2024, 1, 5), "salary", "Other", NoRecurrence, "income"),
       Body(0, 7, MkDate(2024, 1, 6), "transfer", "Other", NoRecurrence, "none"),
       Body(0, 0 - 50, MkDate(2024, 1, 4), "refund", "Food", NoRecurrence, "expense"),
       Body(0, 10, MkDate(2023, 12, 25), "rent", "Bills",
            [ recurring |-> TRUE, recurringType |-> "weekly",
              recurringEndDate |-> NoDate ], "expense") >>

\* the documents created by posting the bodies numbered in S, in that order
RECURSIVE StoredFrom(_, _)
StoredFrom(S, id) ==
    IF S = {} THEN << >>
    ELSE LET k == CHOOSE i \in S : \A j \in S : i <= j
         IN  << DocFields(id, InsightBodies[k]) >> \o StoredFrom(S \ {k}, id + 1)

\* the months the month input may have been set to
InsightMonths == { 202312, 202401 }

InitInsights ==
    /\ \E S \in SUBSET (1..Len(InsightBodies)) :
         /\ Cardinality(S) <= MaxDocs
         /\ \A k \in S : ~MissingRequired(InsightBodies[k]) /\ ~InvalidCategory(InsightBodies[k])
         /\ store = StoredFrom(S, 1)
    /\ nextId = Len(store) + 1
    /\ now = FirstNow
    /\ response = NoResponse
    /\ justPosted = NoPost
    /\ budgetStore = << >>
    /\ budgetResponse = NoBudgetResponse
    /\ transactions \in { Listed(found) : found \in SortedFinds }
    /\ budgets = << >>
    /\ selectedMonth \in InsightMonths
    /\ editId = 0
    /\ form = defaultFormValues
    /\ inflight = {}
    /\ fetches = 0
    /\ tx = NoBody
    /\ monthStart = 0
    /\ monthEnd = 0
    /\ nextDate = 0
    /\ instances = << >>
    /\ pc = "idle"

NextInsights ==
    \/ (\E val \in { 10, 200 } : SetBudget("Food", val)) /\ UNCHANGED expanderVars
    \/ SetBudget("Transport", 10) /\ UNCHANGED expanderVars

SpecInsights == InitInsights /\ [][NextInsights]_vars

(***************************************************************************)
(* The expander step by step: one call on inputs drawn in InitExpand.      *)
(***************************************************************************)
FirstAnchor == MkDate(2023, 12, 25)

AnchorDates ==
    { AddDays(FirstAnchor, k) : k \in 0..MaxAnchorOffset }
        \cup { MkDate(2023, 1, 15), MkDate(2023, 1, 31), MkDate(2020, 2, 29) }

EndDates ==
    { NoDate, MkDate(2023, 12, 31), MkDate(2024, 1, 15), MkDate(2024, 1, 31),
      MkDate(2024, 2, 29) }

WindowMonths == { MkDate(2024, 1, 1), MkDate(2024, 2, 1), MkDate(2024, 3, 1) }

\* [first of the month, first of the next month) and, as GET passes it,
\* [startOfMonth, endOfMonth]
Windows ==
    { << AtMidnight(m), addMonths(AtMidnight(m), 1) >> : m \in WindowMonths }
        \cup { << startOfMonth(AtMidnight(m)), endOfMonth(AtMidnight(m)) >> :
               m \in WindowMonths }

Templates ==
    [ id : {1}, amount : {5}, date : AnchorDates, description : {"rent"},
      category : {"Bills"}, recurring : BOOLEAN,
      recurringType : Periods \cup {"", "daily"},
      recurringEndDate : EndDates, type : {"expense"} ]

InitExpand ==
    /\ tx \in Templates
    /\ \E w \in Windows : monthStart = w[1] /\ monthEnd = w[2]
    /\ nextDate = 0
    /\ instances = << >>
    /\ pc = "call"
    /\ store = << >>
    /\ nextId = 1
    /\ now = FirstNow
    /\ response = NoResponse
    /\ justPosted = NoPost
    /\ budgetStore = << >>
    /\ budgetResponse = NoBudgetResponse
    /\ transactions = << >>
    /\ budgets = << >>
    /\ selectedMonth = MonthKey(DateOf(FirstNow))
    /\ editId = 0
    /\ form = defaultFormValues
    /\ inflight = {}
    /\ fetches = 0

Call ==
    /\ pc = "call"
    /\ instances' = << >>
    /\ IF ~IsTemplate(tx)
       THEN pc' = "done" /\ UNCHANGED nextDate
       ELSE pc' = "loop" /\ nextDate' = AtMidnight(tx.date)
    /\ UNCHANGED << tx, monthStart, monthEnd >>
    /\ UNCHANGED << apiVars, budgetVars, pageVars >>

Iterate ==
    /\ pc = "loop"
    /\ LoopCond(nextDate, monthEnd, EndBound(tx, monthEnd))
    /\ instances' = IF InWindow(nextDate, monthStart)
                    THEN Append(instances, Instance(tx, nextDate))
                    ELSE instances
    /\ IF CanStep(tx.recurringType)
       THEN pc' = "loop" /\ nextDate' = Advance(tx.recurringType, nextDate)
       ELSE pc' = "done" /\ UNCHANGED nextDate
    /\ UNCHANGED << tx, monthStart, monthEnd >>
    /\ UNCHANGED << apiVars, budgetVars, pageVars >>

Return ==
    /\ pc = "loop"
    /\ ~LoopCond(nextDate, monthEnd, EndBound(tx, monthEnd))
    /\ pc' = "done"
    /\ UNCHANGED << tx, monthStart, monthEnd, nextDate, instances >>
    /\ UNCHANGED << apiVars, budgetVars, pageVars >>

NextExpand == Call \/ Iterate \/ Return

SpecExpand == InitExpand /\ [][NextExpand]_vars

\* the call is not suspended: the function runs synchronously to its return
FairSpecExpand == SpecExpand /\ WF_vars(NextExpand)

\* the step-by-step run returns what the operator computes
StepsAgree ==
    pc = "done" => instances = generateRecurringInstances(tx, monthStart, monthEnd)


(***************************************************************************)
(* Properties of the expander (under SpecExpand).                          *)
(***************************************************************************)
InstanceDates == { instances[i].date : i \in 1..Len(instances) }

\* the dates anchor + 7k days that lie in [mStart, mEnd)
WeeklyDates(t, mStart, mEnd) ==
    { d \in { AddDays(t.date, 7 * k) : k \in 0..230 } :
        mStart <= AtMidnight(d) /\ AtMidnight(d) < mEnd }

\* the dates the stepping from next reaches before mEnd
RECURSIVE SteppedDates(_, _, _)
SteppedDates(type, next, mEnd) ==
    IF next >= mEnd THEN {}
    ELSE {DateOf(next)} \cup SteppedDates(type, Advance(type, next), mEnd)

\* C1: a weekly template with no end date yields exactly the dates
\* anchor + 7k in [windowStart, windowEnd), each once, in increasing order,
\* every occurrence a copy of the template with only the date replaced;
\* anchor 2024-01-01 in January 2024 gives 01-01, 01-08, 01-15, 01-22, 01-29.
C1_WeeklyOccurrences ==
    (pc = "done" /\ tx.recurring /\ tx.recurringType = "weekly"
        /\ tx.recurringEndDate = NoDate)
    => /\ InstanceDates = WeeklyDates(tx, monthStart, monthEnd)
       /\ Len(instances) = Cardinality(WeeklyDates(tx, monthStart, monthEnd))
       /\ \A i \in 1..Len(instances) :
            instances[i] = [tx EXCEPT !.date = instances[i].date]
       /\ \A i, j \in 1..Len(instances) :
            i < j => instances[i].date < instances[j].date
       /\ (tx.date = 20240101 /\ monthStart = AtMidnight(20240101)
            /\ monthEnd = AtMidnight(20240201))
          => [ i \in 1..Len(instances) |-> instances[i].date ]
                = << 20240101, 20240108, 20240115, 20240122, 20240129 >>

C1_Witness ==
    /\ pc = "done" /\ tx.recurring /\ tx.recurringType = "weekly"
    /\ tx.recurringEndDate = NoDate
    /\ tx.date = 20240101 /\ monthStart = AtMidnight(20240101)
    /\ monthEnd = AtMidnight(20240201)
    /\ Len(instances) = 5

\* C2: with an end date E, a stepped date d is emitted iff
\* windowStart <= d < windowEnd and d <= E (a stepped date equal to E is
\* emitted, none after E is).
C2_EndDateInclusive ==
    (pc = "done" /\ IsTemplate(tx) /\ tx.recurringType \in Periods
        /\ tx.recurringEndDate # NoDate)
    => InstanceDates =
         { d \in SteppedDates(tx.recurringType, AtMidnight(tx.date), monthEnd) :
             /\ monthStart <= AtMidnight(d)
             /\ d <= tx.recurringEndDate }

\* C3: the result is empty when the recurring flag is false, when the
\* recurringType is unset, or when the recurringEndDate precedes windowStart.
C3_EmptyResult ==
    (pc = "done"
        /\ \/ ~tx.recurring
           \/ tx.recurringType = ""
           \/ (tx.recurringEndDate # NoDate
                 /\ AtMidnight(tx.recurringEndDate) < monthStart))
    => instances = << >>

C3_Witness ==
    /\ pc = "done" /\ tx.recurring /\ tx.recurringType = "monthly"
    /\ tx.recurringEndDate # NoDate
    /\ AtMidnight(tx.recurringEndDate) < monthStart
    /\ tx.date < tx.recurringEndDate
    /\ nextDate > AtMidnight(tx.date)
    /\ instances = << >>

\* the months since year 0 of an instant
MonthCount(instant) == YearOf(DateOf(instant)) * 12 + MonthOf(DateOf(instant))

\* C14: every iteration of the loop either moves the stepped date forward by
\* the recurrence period (7 days, 1 month, 1 year) or leaves the loop, and
\* every call returns, for every template (also one anchored years before
\* the window or one whose recurringType is no period) and every window.
C14_Terminates ==
    /\ [][ (pc = "loop" /\ pc' = "loop")
            => /\ nextDate' > nextDate
               /\ tx.recurringType = "weekly"
                    => DateOf(nextDate') = AddDays(DateOf(nextDate), 7)
               /\ tx.recurringType = "monthly"
                    => MonthCount(nextDate') = MonthCount(nextDate) + 1
               /\ tx.recurringType = "yearly"
                    => MonthCount(nextDate') = MonthCount(nextDate) + 12
               /\ tx.recurringType \in Periods ]_vars
    /\ <>(pc = "done")

\* a call returned whose template is anchored years before the window and
\* was stepped up to the window's end
C14_Witness ==
    /\ pc = "done"
    /\ IsTemplate(tx) /\ tx.recurringType = "yearly"
    /\ tx.date = MkDate(2020, 2, 29)
    /\ nextDate >= monthEnd


(***************************************************************************)
(* Properties of the transactions API (under Spec).                        *)
(***************************************************************************)
RequiredFields == { "amount", "date", "description", "category" }

\* the entries of the last list that come from the document id
EntriesOf(id) == { i \in 1..Len(response.list) : response.list[i].id = id }

SameAsSubmitted(entry, body) ==
    /\ entry.amount = body.amount
    /\ entry.date = body.date
    /\ entry.description = body.description
    /\ entry.category = body.category

C5_GetKeepsStore ==
    /\ [](/\ Cardinality(StoredIds) = Len(store)
          /\ \A id \in StoredIds : id < nextId)
    /\ [][response'.op = "GET" => store' = store /\ nextId' = nextId]_vars

C5_Witness ==
    /\ response.op = "GET"
    /\ store # << >>
    /\ Len(response.list) > Len(store)

\* a body that passes the validation of POST and PUT
WellFormed(body) ==
    /\ \A f \in RequiredFields : ~Falsy(body, f)
    /\ body.category \in Registry

\* C8: a failing request leaves the store unchanged; POST and PUT answer
\* 400 when a required field is missing or the category is not in the
\* registry; PUT and DELETE answer 404 when the id resolves to no record; a
\* successful DELETE removes exactly that record, a successful PUT changes
\* only that record and keeps its id.
C8_FailuresAndWrites ==
    [][ /\ response' = response => store' = store
        /\ response' # response =>
             LET r == response'
             IN  /\ r.status \in {400, 404} => store' = store
                 /\ (r.op \in {"POST", "PUT"}
                       /\ \/ \E f \in RequiredFields : f \notin r.body.has
                          \/ r.body.category \notin Registry)
                    => r.status = 400
                 /\ (r.op = "PUT" /\ WellFormed(r.body) /\ ~Falsy(r.body, "id")
                       /\ r.body.id \notin StoredIds)
                    => r.status = 404
                 /\ (r.op = "DELETE" /\ ~Falsy(r.body, "id")
                       /\ r.body.id \notin StoredIds)
                    => r.status = 404
                 /\ (r.op = "DELETE" /\ r.status = 200)
                    => /\ r.body.id \in StoredIds
                       /\ store' = SelectSeq(store, LAMBDA d : d.id # r.body.id)
                 /\ (r.op = "PUT" /\ r.status = 200)
                    => /\ r.body.id \in StoredIds
                       /\ Len(store') = Len(store)
                       /\ \A i \in 1..Len(store) :
                            /\ store'[i].id = store[i].id
                            /\ store[i].id # r.body.id => store'[i] = store[i]
      ]_vars

C8_Witness ==
    /\ response.op = "PUT" /\ response.status = 200
    /\ Len(store) = 2
    /\ \E i, j \in 1..Len(store) :
         /\ store[i].id = response.id /\ store[i].amount = 2
         /\ store[j].id # response.id /\ store[j].amount = 1

C13_PositiveAmounts ==
    /\ \A i \in 1..Len(store) : store[i].amount > 0
    /\ (response.op \in {"POST", "PUT"} /\ response.body.amount <= 0)
       => response.status = 400

\* the place of document id in the order found
PlaceIn(found, id) == CHOOSE i \in 1..Len(found) : found[i].id = id

\* C18: the list GET returns is sorted by date, latest first, and entries of
\* one date stand in the order in which their documents were read from the
\* store.
C18_SortedStable ==
    response.op = "GET"
    => LET list == response.list
       IN  /\ \A i \in 1..(Len(list) - 1) : list[i].date >= list[i + 1].date
           /\ \E found \in SortedFinds :
                \A i, j \in 1..Len(list) :
                    (i < j /\ list[i].date = list[j].date)
                    => PlaceIn(found, list[i].id) < PlaceIn(found, list[j].id)

\* two entries of one date whose documents have different dates, so that the
\* store could only be read in one order
C18_Witness ==
    /\ response.op = "GET"
    /\ \E i, j \in 1..Len(response.list) :
         /\ i < j
         /\ response.list[i].date = response.list[j].date
         /\ response.list[i].id \in StoredIds /\ response.list[j].id \in StoredIds
         /\ store[IndexOf(response.list[i].id)].date
              > store[IndexOf(response.list[j].id)].date


(***************************************************************************)
(* Properties of the budgets API (under SpecBudget).                       *)
(***************************************************************************)
BudgetFields == { "category", "month", "amount" }

\* C6: the store holds at most one budget per (category, month); an accepted
\* POST leaves exactly one record of its key, holding its amount, and a POST
\* for an existing key adds no record.
C6_OneBudgetPerKey ==
    /\ [](\A i, j \in 1..Len(budgetStore) :
            (budgetStore[i].category = budgetStore[j].category
               /\ budgetStore[i].month = budgetStore[j].month) => i = j)
    /\ []((budgetResponse.op = "POST" /\ budgetResponse.status = 200)
            => LET b == budgetResponse.body
               IN  /\ Cardinality(Matching(b.category, b.month)) = 1
                   /\ \A i \in Matching(b.category, b.month) :
                        budgetStore[i].amount = b.amount)
    /\ [][ (budgetResponse'.op = "POST" /\ budgetResponse'.status = 200
              /\ Matching(budgetResponse'.body.category,
                          budgetResponse'.body.month) # {})
           => Len(budgetStore') = Len(budgetStore) ]_vars

\* the first record inserted is the one the last POST wrote, with another
\* record inserted in between: the POST overwrote an existing key
C6_Witness ==
    /\ budgetResponse.op = "POST" /\ budgetResponse.status = 200
    /\ Len(budgetStore) >= 2
    /\ budgetStore[1].category = budgetResponse.body.category
    /\ budgetStore[1].month = budgetResponse.body.month
    /\ budgetStore[1].amount = budgetResponse.body.amount

\* C7: a budget POST is answered 400 exactly when category, month or amount
\* is missing; a request carrying all three with a non-negative amount, 0
\* included, is accepted and upserted.
C7_RejectedIffMissing ==
    budgetResponse.op = "POST"
    => LET b == budgetResponse.body
       IN  /\ budgetResponse.status = 400 <=> (\E f \in BudgetFields : f \notin b.has)
           /\ (BudgetFields \subseteq b.has /\ b.amount >= 0)
              => /\ budgetResponse.status = 200
                 /\ \E i \in Matching(b.category, b.month) :
                      budgetStore[i].amount = b.amount


(***************************************************************************)
(* Properties of the budget comparison (under SpecPage).                   *)
(***************************************************************************)
\* fractions are equal
SameFraction(x, y) == x.num * y.den = y.num * x.den

\* min(actual / budget, 1) for budget > 0, as a percentage
CappedRatio(actual, budget) ==
    IF actual < budget THEN [ num |-> actual * 100, den |-> budget ]
    ELSE [ num |-> 100, den |-> 1 ]

\* C9: for every category of the registry: budgetAmount is 0 when no budget
\* record of the selected month exists for it; overBudget iff budgetAmount > 0
\* and actualAmount > budgetAmount; progressRatio is
\* min(actualAmount / budgetAmount, 1) when budgetAmount > 0 and 0 otherwise.
C9_Comparison ==
    \A cat \in Registry :
        /\ (\A i \in 1..Len(budgets) : budgets[i].category # cat) => BudgetOf(cat) = 0
        /\ OverBudget(cat) <=> (BudgetOf(cat) > 0 /\ ActualOf(cat) > BudgetOf(cat))
        /\ SameFraction(ProgressValue(cat),
                        IF BudgetOf(cat) > 0
                        THEN CappedRatio(ActualOf(cat), BudgetOf(cat))
                        ELSE [ num |-> 0, den |-> 1 ])

\* the page holds what a GET returns now
PageIsFresh == \E found \in SortedFinds : transactions = Listed(found)

\* the first instant after the month (yyyymm)
MonthEndOf(month) ==
    addMonths(AtMidnight(MkDate(month \div 100, month % 100, 1)), 1)

\* the dates on which the stored document doc occurs in the month
OccurrencesIn(doc, month) ==
    IF IsTemplate(doc)
    THEN { d \in SteppedDates(doc.recurringType, AtMidnight(doc.date), MonthEndOf(month)) :
             /\ MonthKey(d) = month
             /\ (doc.recurringEndDate # NoDate => d <= doc.recurringEndDate) }
    ELSE { d \in { doc.date } : MonthKey(d) = month }

\* the sum of the amounts of the expense occurrences of cat in the month
RECURSIVE ExpenseTotal(_, _, _)
ExpenseTotal(docs, cat, month) ==
    IF docs = << >> THEN 0
    ELSE (IF Head(docs).category = cat /\ Head(docs).type = "expense"
          THEN Head(docs).amount * Cardinality(OccurrencesIn(Head(docs), month))
          ELSE 0) + ExpenseTotal(Tail(docs), cat, month)

\* C10: for every selectable month and every category, actualAmount is the
\* sum of the amounts of the expense occurrences of the category dated in
\* that month, one-off transactions and occurrences of recurring templates
\* alike, also when the month is not the current one.
C10_ActualIsMonthTotal ==
    PageIsFresh
    => \A cat \in Registry : ActualOf(cat) = ExpenseTotal(store, cat, selectedMonth)


(***************************************************************************)
(* Properties of the insights and the chart series (under SpecInsights).   *)
(***************************************************************************)
\* the insights of the kinds given
InsightsOf(kinds) == SelectSeq(insights, LAMBDA m : m.kind \in kinds)

\* the insights of the kinds given that name the category
InsightsOn(kinds, cat) ==
    SelectSeq(insights, LAMBDA m : m.kind \in kinds /\ m.category = cat)

\* one figure against last month's: a message of kind more iff both are
\* positive and the change is above 20%, of kind less iff both are positive
\* and the change is below -20%, never both, printing the rounded change
ChangeRule(found, more, less, current, last) ==
    LET both == current > 0 /\ last > 0
    IN  /\ Len(found) <= 1
        /\ (\E i \in 1..Len(found) : found[i].kind = more)
             <=> (both /\ (current - last) * 100 > 20 * last)
        /\ (\E i \in 1..Len(found) : found[i].kind = less)
             <=> (both /\ (current - last) * 100 < 0 - 20 * last)
        /\ \A i \in 1..Len(found) :
             LET size == IF current >= last THEN current - last ELSE last - current
             IN  /\ 2 * last * found[i].percent <= 200 * size + last
                 /\ 200 * size + last < 2 * last * (found[i].percent + 1)

TopPlaces ==
    { i \in 1..Len(CATEGORIES) :
        /\ CategoryTotal(CATEGORIES[i]) > 0
        /\ \A j \in 1..Len(CATEGORIES) :
             CategoryTotal(CATEGORIES[j]) <= CategoryTotal(CATEGORIES[i]) }

\* C15: the "biggest expense category" message names the category of the
\* largest expense total, the first one in registry order when several share
\* it; with no nonzero total there is no such message.
C15_BiggestTieFirst ==
    /\ (\A cat \in Registry : CategoryTotal(cat) = 0) => InsightsOf({"biggest"}) = << >>
    /\ TopPlaces # {}
         => InsightsOf({"biggest"})
              = << Message("biggest",
                           CATEGORIES[CHOOSE i \in TopPlaces : \A j \in TopPlaces : i <= j],
                           0) >>

\* the sum of the amounts of the listed entries of a type dated in a month
MonthTotal(type, month) ==
    SumAmounts(SelectSeq(filteredTransactions,
                         LAMBDA t : t.type = type /\ MonthKey(t.date) = month))

\* the same for one category
MonthCategoryTotal(cat, month) ==
    SumAmounts(SelectSeq(filteredTransactions,
                         LAMBDA t : /\ t.type = "expense" /\ t.category = cat
                                    /\ MonthKey(t.date) = month))

\* C16: the current figures of the insight rules count the entries dated in
\* the current calendar month only: the category totals of rules 1 and 2 and
\* the net savings of rule 3.
C16_CurrentMonthOnly ==
    /\ \A cat \in Registry : CategoryTotal(cat) = MonthCategoryTotal(cat, thisMonth)
    /\ \A i \in 1..Len(categoryTotals) :
         categoryTotals[i].total = MonthCategoryTotal(categoryTotals[i].category, thisMonth)
    /\ netSavings = MonthTotal("income", thisMonth) - MonthTotal("expense", thisMonth)

\* the rule an insight comes from
RuleOf(m) ==
    IF m.kind = "biggest" THEN 1
    ELSE IF m.kind \in {"spentMore", "spentLess"} THEN 2
    ELSE IF m.kind \in {"savedMore", "savedLess"} THEN 3
    ELSE 4

PlaceOf(cat) == CHOOSE i \in 1..Len(CATEGORIES) : CATEGORIES[i] = cat

\* C17: the insights stand in the order: the biggest category (if any)
\* first, the spending changes by category in registry order, the savings
\* change, then one budget message for every category with budget > 0 and
\* actual > budget, and for no other, in registry order.
C17_InsightOrder ==
    LET list == insights
    IN  /\ \A i, j \in 1..Len(list) :
             i < j => /\ RuleOf(list[i]) <= RuleOf(list[j])
                      /\ (RuleOf(list[i]) = RuleOf(list[j]))
                           => /\ RuleOf(list[i]) \in {2, 4}
                              /\ PlaceOf(list[i].category) < PlaceOf(list[j].category)
        /\ \A cat \in Registry :
             (\E i \in 1..Len(list) :
                 list[i].kind = "raiseBudget" /\ list[i].category = cat)
             <=> (BudgetOf(cat) > 0 /\ ActualOf(cat) > BudgetOf(cat))

\* all four rules speak, two categories each for the spending change and
\* the budget
C17_Witness ==
    /\ Len(InsightsOf({"biggest"})) = 1
    /\ Len(InsightsOf({"spentMore", "spentLess"})) = 2
    /\ Len(InsightsOf({"savedMore", "savedLess"})) = 1
    /\ Len(InsightsOf({"raiseBudget"})) = 2

\* C19: the spend series holds, for every month of a listed entry, the sum
\* of the amounts of the expense entries dated in that month; income entries
\* do not add to it.
C19_SpendSeries ==
    \A m \in DOMAIN monthlyData : monthlyData[m] = MonthTotal("expense", m)

\* the sum of one column of the savings series over its months
RECURSIVE SeriesSum(_, _)
SeriesSum(months, column) ==
    IF months = {} THEN 0
    ELSE LET m == CHOOSE x \in months : TRUE
         IN  savingsChartData[m][column] + SeriesSum(months \ {m}, column)

\* C20: the savings series adds up to the summary totals: its income to the
\* total income, its expense to the total expenses, its savings to the net
\* savings, for every list of transactions the API stores (those of type
\* "none" included).
C20_SeriesAddsUp ==
    /\ SeriesSum(DOMAIN savingsChartData, "income") = totalIncome
    /\ SeriesSum(DOMAIN savingsChartData, "expense") = totalExpenses
    /\ SeriesSum(DOMAIN savingsChartData, "savings") = netSavings


C22_BudgetsOfSelectedMonth ==
    inflight = {} => budgets = FoundBudgets(selectedMonth)

=============================================================================
